---- MODULE Spec2Model ----
(***************************************************************************)
(* Model of blahrs src/types.rs: the signed envelope (WithSig / Signee),   *)
(* its canonical serialisation, the room member list, the 64-bit flag      *)
(* types and their SQL column mappings.                                    *)
(*                                                                         *)
(* Cryptography is idealised: a signature is the triple (signing key,      *)
(* signed bytes, flipped bits); strict verification accepts exactly the    *)
(* unflipped signature of the same bytes under the matching key.  Curve    *)
(* point decoding is a fixed partition of the byte strings into            *)
(* undecodable, small-order and ordinary keys.                             *)
(***************************************************************************)
EXTENDS Integers, Sequences, FiniteSets, TLC

VARIABLES
    now,        \* the wall clock, unix seconds (SystemTime::now)
    env,        \* the WithSig envelope held by a verifier, or NoEnvelope
    signed,     \* the envelope exactly as WithSig::sign returned it
    res,        \* outcome of the verify call just made, or "none"
    accepts,    \* how often verify has returned Ok for this envelope
    members,    \* argument of the last RoomMemberList::try_from call
    roster,     \* its result
    col,        \* a storage column cell (rusqlite ValueRef)
    stored,     \* the value whose to_sql wrote col, or NoValue
    loaded      \* result of the last column_result call on col

envVars == <<now, env, signed, res, accepts>>
rosterVars == <<members, roster>>
sqlVars == <<col, stored, loaded>>
vars == <<now, env, signed, res, accepts, members, roster, col, stored, loaded>>

----------------------------------------------------------------------------
(* Bounds *)

\* Bytes of a public key (PUBLIC_KEY_LENGTH, 32 in ed25519_dalek).
KeyLen == 2
\* Width of a flag mask and of the integer column (64 in the source).
FlagBits == 4
\* Width of the nonce (32 in the source).
NonceBits == 1
\* Bits of the signature that may be flipped (512 in the source).
SigBits == 2
\* Low bits of the timestamp that may be flipped.
TsFlipBits == 8
\* Longest member list passed to try_from.
MaxMembers == 3
\* Cap of the acceptance counter.
MaxAccepts == 2

\* src/types.rs:18
TIMESTAMP_TOLERENCE == 90

\* Values of one key byte (the low bit of a u8).
Byte == {0, 1}

Pow2(n) == 2 ^ n

\* The signing time of the scenario of the specification.
ScenarioT == 1700 * 1000000

\* Clock readings the environment may produce.
ClockOffsets == {0, 10, 89, 90, 91}
ClockReadings == {ScenarioT + d : d \in ClockOffsets}
\* Timestamps an attacker may write into an envelope.
ForgedTimestamps == {ScenarioT - 200, ScenarioT + 200}

----------------------------------------------------------------------------
(* Identity *)

UserKeys == [1..KeyLen -> Byte]

\* Rust's `<` on [u8; N]: lexicographic, first differing byte decides.
RECURSIVE array_lt_from(_, _, _)
array_lt_from(a, b, i) ==
    IF i > Len(a) \/ i > Len(b) THEN Len(a) < Len(b)
    ELSE IF a[i] # b[i] THEN a[i] < b[i]
    ELSE array_lt_from(a, b, i + 1)

array_lt(a, b) == array_lt_from(a, b, 1)

\* VerifyingKey::from_bytes succeeds: the bytes decompress to a curve point.
from_bytes_ok(k) == ~(k[1] = 1 /\ k[KeyLen] = 1)

\* The decoded point is of small order (verify_strict rejects such keys).
is_weak(k) == \A i \in 1..KeyLen : k[i] = 0

SigningKeys == {"K1", "K2"}

\* SigningKey::verifying_key().to_bytes()
verifying_key(key) ==
    IF key = "K1" THEN [i \in 1..KeyLen |-> IF i = KeyLen THEN 1 ELSE 0]
    ELSE [i \in 1..KeyLen |-> IF i = 1 THEN 1 ELSE 0]

HexDigits == <<"0", "1", "2", "3", "4", "5", "6", "7",
               "8", "9", "a", "b", "c", "d", "e", "f">>

\* hex::encode: two lowercase digits per byte, high nibble first.
hex(k) ==
    [i \in 1..(2 * Len(k)) |->
        IF i % 2 = 1 THEN HexDigits[(k[(i + 1) \div 2] \div 16) + 1]
        ELSE HexDigits[(k[i \div 2] % 16) + 1]]

----------------------------------------------------------------------------
(* Flags *)

FlagTypes == {"ServerPermission", "MemberPermission", "RoomAttrs"}
Masks == 0..(Pow2(FlagBits) - 1)
\* const ALL = !0
ALL == Pow2(FlagBits) - 1
POST_CHAT == Pow2(0)
ADD_MEMBER == Pow2(1)
PUBLIC_READABLE == Pow2(0)

\* `bits as i64`: two's-complement reinterpretation.
as_i64(bits) == IF bits >= Pow2(FlagBits - 1) THEN bits - Pow2(FlagBits) ELSE bits
\* Mutant: a checked conversion that falls back to the empty mask.
as_u64_checked(v) == IF v < 0 THEN 0 ELSE v

\* `v as u64`
as_u64(v) == v % Pow2(FlagBits)

\* $name::from_bits_retain: keeps every bit, named or not.
from_bits_retain(name, bits) == [name |-> name, bits |-> bits]

----------------------------------------------------------------------------
(* Member list *)

RoomMember(permission, user) == [permission |-> permission, user |-> user]

\* Mutant: `<=` in place of `<`, which lets duplicates through.
windows_all_le(ms) ==
    \A i \in 1..(Len(ms) - 1) : ~array_lt(ms[i + 1].user, ms[i].user)

\* members.windows(2).all(|w| w[0].user.0 < w[1].user.0)
windows_all_lt(ms) ==
    \A i \in 1..(Len(ms) - 1) : array_lt(ms[i].user, ms[i + 1].user)

try_from(ms) ==
    IF windows_all_lt(ms) THEN [ok |-> TRUE, list |-> ms, err |-> ""]
    ELSE [ok |-> FALSE, list |-> <<>>, err |-> "unsorted or duplicated users"]

----------------------------------------------------------------------------
(* Payloads *)

Room1 == "11111111-1111-1111-1111-111111111111"

ChatPayload(room, text) == [kind |-> "chat", room |-> room, text |-> text]
CreateRoomPayload(attrs, list, title) ==
    [kind |-> "create_room", attrs |-> attrs, members |-> list, title |-> title]
AuthPayload == [kind |-> "auth"]
AddMember(permission, room, user) ==
    [kind |-> "add_member", permission |-> permission, room |-> room, user |-> user]

Payloads ==
    { ChatPayload(Room1, "hi"),
      CreateRoomPayload(PUBLIC_READABLE,
          try_from(<<RoomMember(POST_CHAT, verifying_key("K1")),
                     RoomMember(ALL, verifying_key("K2"))>>).list,
          "room"),
      AuthPayload,
      AddMember(ADD_MEMBER, Room1, verifying_key("K2")) }

----------------------------------------------------------------------------
(* Canonical serialisation: serde_json::to_vec.  A JSON object is the        *)
(* sequence of its <<key, value>> pairs in the order they are emitted.       *)

ser_member(m) == << <<"permission", m.permission>>, <<"user", hex(m.user)>> >>

ser_members(ms) == [i \in 1..Len(ms) |-> ser_member(ms[i])]

\* serde emits the internal tag `typ` before the fields of the struct.
ser_payload(p) ==
    CASE p.kind = "chat" ->
            << <<"typ", "chat">>, <<"room", p.room>>, <<"text", p.text>> >>
      [] p.kind = "create_room" ->
            << <<"typ", "create_room">>, <<"attrs", p.attrs>>,
               <<"members", ser_members(p.members)>>, <<"title", p.title>> >>
      [] p.kind = "auth" ->
            << <<"typ", "auth">> >>
      [] p.kind = "add_member" ->
            << <<"typ", "add_member">>, <<"permission", p.permission>>,
               <<"room", p.room>>, <<"user", hex(p.user)>> >>

to_vec(signee) ==
    << <<"nonce", signee.nonce>>,
       <<"payload", ser_payload(signee.payload)>>,
       <<"timestamp", signee.timestamp>>,
       <<"user", hex(signee.user)>> >>

\* The key sequences of every object of the serialised signee.
object_keys(obj) == [i \in 1..Len(obj) |-> obj[i][1]]

signee_objects(signee) ==
    {object_keys(to_vec(signee)), object_keys(ser_payload(signee.payload))}
    \cup (IF signee.payload.kind = "create_room"
          THEN {object_keys(ser_member(signee.payload.members[i])) :
                    i \in 1..Len(signee.payload.members)}
          ELSE {})

\* Byte order of the key names that occur (str `<`, as in the test's
\* `w[0] < w[1]`).
FieldNames == <<"attrs", "members", "nonce", "payload", "permission", "room",
                "text", "timestamp", "title", "typ", "user">>
field_rank(s) == CHOOSE i \in 1..Len(FieldNames) : FieldNames[i] = s
fields_sorted(fields) ==
    \A i \in 1..(Len(fields) - 1) : field_rank(fields[i]) < field_rank(fields[i + 1])

----------------------------------------------------------------------------
(* Signature envelope *)

NoEnvelope == [sig |-> "none"]
Nonces == 0..(Pow2(NonceBits) - 1)

get_timestamp == now

\* Mutant: the age of the timestamp only, `now.saturating_sub(timestamp)`.
age_only(a, b) == IF b > a THEN b - a ELSE 0

\* u64::abs_diff
abs_diff(a, b) == IF a > b THEN a - b ELSE b - a

\* SigningKey::try_sign: the one signature of msg under key.
try_sign(key, msg) == [by |-> key, over |-> msg, flipped |-> {}]

\* Mutant: a verification that looks at part of the signature only.
verify_lax(k, msg, sig) ==
    /\ ~is_weak(k)
    /\ verifying_key(sig.by) = k
    /\ sig.over = msg

\* VerifyingKey::verify_strict
verify_strict(k, msg, sig) ==
    /\ ~is_weak(k)
    /\ sig.flipped = {}
    /\ verifying_key(sig.by) = k
    /\ sig.over = msg

\* Mutant: the signature is made before the timestamp is filled in.
sign_early(key, nonce, payload) ==
    LET signee == [nonce |-> nonce,
                   payload |-> payload,
                   timestamp |-> get_timestamp,
                   user |-> verifying_key(key)]
    IN [sig |-> try_sign(key, to_vec([signee EXCEPT !.timestamp = 0])),
        signee |-> signee]

sign(key, nonce, payload) ==
    LET signee == [nonce |-> nonce,
                   payload |-> payload,
                   timestamp |-> get_timestamp,
                   user |-> verifying_key(key)]
    IN [sig |-> try_sign(key, to_vec(signee)), signee |-> signee]

\* Mutant: the signature is checked before the timestamp.
verify_signature_first(e) ==
    IF ~from_bytes_ok(e.signee.user)
    THEN "InvalidIdentity"
    ELSE IF ~verify_strict(e.signee.user, to_vec(e.signee), e.sig)
    THEN "InvalidSignature"
    ELSE IF ~(abs_diff(e.signee.timestamp, get_timestamp) < TIMESTAMP_TOLERENCE)
    THEN "TimestampOutOfRange"
    ELSE "Ok"

\* Mutant: the signer key is decoded before the timestamp is checked.
verify_identity_first(e) ==
    IF ~from_bytes_ok(e.signee.user)
    THEN "InvalidIdentity"
    ELSE IF ~(abs_diff(e.signee.timestamp, get_timestamp) < TIMESTAMP_TOLERENCE)
    THEN "TimestampOutOfRange"
    ELSE IF ~verify_strict(e.signee.user, to_vec(e.signee), e.sig)
    THEN "InvalidSignature"
    ELSE "Ok"

\* Mutant: an envelope is accepted once only (a nonce ledger).
verify_once(e) ==
    IF ~(abs_diff(e.signee.timestamp, get_timestamp) < TIMESTAMP_TOLERENCE)
    THEN "TimestampOutOfRange"
    ELSE IF ~from_bytes_ok(e.signee.user)
    THEN "InvalidIdentity"
    ELSE IF ~verify_strict(e.signee.user, to_vec(e.signee), e.sig) \/ accepts > 0
    THEN "InvalidSignature"
    ELSE "Ok"

verify(e) ==
    IF ~(abs_diff(e.signee.timestamp, get_timestamp) < TIMESTAMP_TOLERENCE)
    THEN "TimestampOutOfRange"
    ELSE IF ~from_bytes_ok(e.signee.user)
    THEN "InvalidIdentity"
    ELSE IF ~verify_strict(e.signee.user, to_vec(e.signee), e.sig)
    THEN "InvalidSignature"
    ELSE "Ok"

\* x with bit b flipped.
flip_bit(x, b) ==
    IF (x \div Pow2(b)) % 2 = 1 THEN x - Pow2(b) ELSE x + Pow2(b)

flip_sig(sig, b) ==
    [sig EXCEPT !.flipped = IF b \in @ THEN @ \ {b} ELSE @ \cup {b}]

----------------------------------------------------------------------------
(* Initial state *)

NoRoster == [ok |-> FALSE, list |-> <<>>, err |-> "not called"]
NoValue == [name |-> "none"]
NoResult == [kind |-> "none"]

NoEnvelopeYet ==
    /\ env = NoEnvelope
    /\ signed = NoEnvelope
    /\ res = "none"
    /\ accepts = 0

NoRosterYet ==
    /\ members = <<>>
    /\ roster = NoRoster

EmptyColumn ==
    /\ col = [type |-> "Null"]
    /\ stored = NoValue
    /\ loaded = NoResult

Init ==
    /\ now \in ClockReadings
    /\ NoEnvelopeYet
    /\ NoRosterYet
    /\ EmptyColumn

----------------------------------------------------------------------------
(* Envelope operations *)

\* The system clock reads t.
ClockReads(t) ==
    /\ t # now
    /\ now' = t
    /\ res' = "none"
    /\ UNCHANGED <<env, signed, accepts, rosterVars, sqlVars>>

\* WithSig::sign(key, rng, payload), rng.next_u32() returning nonce.  The
\* model follows one envelope from its signing on.
Sign(key, nonce, payload) ==
    /\ env = NoEnvelope
    /\ env' = sign(key, nonce, payload)
    /\ signed' = env'
    /\ res' = "none"
    /\ accepts' = 0
    /\ UNCHANGED <<now, rosterVars, sqlVars>>

\* WithSig::verify(&self)
Verify ==
    /\ env # NoEnvelope
    /\ accepts < MaxAccepts
    /\ res' = verify(env)
    /\ accepts' = IF res' = "Ok" THEN accepts + 1 ELSE accepts
    /\ UNCHANGED <<now, env, signed, rosterVars, sqlVars>>

\* An intermediary alters the envelope in transit or in storage.
Tampered(e) ==
    /\ env' = e
    /\ res' = "none"
    /\ UNCHANGED <<now, signed, accepts, rosterVars, sqlVars>>

FlipSignatureBit(b) ==
    /\ env # NoEnvelope
    /\ env.sig = signed.sig
    /\ Tampered([env EXCEPT !.sig = flip_sig(@, b)])

FlipNonceBit(b) ==
    /\ env # NoEnvelope
    /\ env.signee = signed.signee
    /\ Tampered([env EXCEPT !.signee.nonce = flip_bit(@, b)])

FlipTimestampBit(b) ==
    /\ env # NoEnvelope
    /\ env.signee = signed.signee
    /\ Tampered([env EXCEPT !.signee.timestamp = flip_bit(@, b)])

FlipUserBit(i) ==
    /\ env # NoEnvelope
    /\ env.signee = signed.signee
    /\ Tampered([env EXCEPT !.signee.user[i] = 1 - @])

ReplacePayload(p) ==
    /\ env # NoEnvelope
    /\ env.signee = signed.signee
    /\ p.kind # env.signee.payload.kind
    /\ Tampered([env EXCEPT !.signee.payload = p])

SetTimestamp(t) ==
    /\ env # NoEnvelope
    /\ env.signee = signed.signee
    /\ Tampered([env EXCEPT !.signee.timestamp = t])

Next ==
    \/ \E t \in ClockReadings : ClockReads(t)
    \/ \E key \in SigningKeys, nonce \in Nonces, p \in Payloads : Sign(key, nonce, p)
    \/ Verify
    \/ \E b \in 1..SigBits : FlipSignatureBit(b)
    \/ \E b \in 0..(NonceBits - 1) : FlipNonceBit(b)
    \/ \E b \in 0..(TsFlipBits - 1) : FlipTimestampBit(b)
    \/ \E i \in 1..KeyLen : FlipUserBit(i)
    \/ \E p \in Payloads : ReplacePayload(p)
    \/ \E t \in ForgedTimestamps : SetTimestamp(t)

Spec == Init /\ [][Next]_vars

----------------------------------------------------------------------------
(* Member list construction *)

MemberPermissions == {POST_CHAT, ALL}
Members == {RoomMember(p, k) : p \in MemberPermissions, k \in UserKeys}
MemberLists == UNION {[1..n -> Members] : n \in 0..MaxMembers}

InitRoster ==
    /\ now = ScenarioT
    /\ NoEnvelopeYet
    /\ members \in MemberLists
    /\ roster = NoRoster
    /\ EmptyColumn

\* RoomMemberList::try_from(members)
TryFrom ==
    /\ roster = NoRoster
    /\ roster' = try_from(members)
    /\ UNCHANGED <<members, envVars, sqlVars>>

NextRoster == TryFrom

SpecRoster == InitRoster /\ [][NextRoster]_vars

----------------------------------------------------------------------------
(* SQL column mappings (mod sql_impl) *)

Integer(v) == [type |-> "Integer", val |-> v]
Blob(b) == [type |-> "Blob", val |-> b]
I64 == (0 - Pow2(FlagBits - 1))..(Pow2(FlagBits - 1) - 1)
Blobs == UNION {[1..n -> Byte] : n \in 0..(KeyLen + 1)}
ColumnValues ==
    {[type |-> "Null"], [type |-> "Text"]}
    \cup {Integer(v) : v \in I64}
    \cup {Blob(b) : b \in Blobs}

Ok(name, v) == [kind |-> "ok", as |-> name, value |-> v]
Err(name, e) == [kind |-> "err", as |-> name, err |-> e]

UserKey(k) == [name |-> "UserKey", bytes |-> k]

\* impl ToSql for UserKey: self.0.to_sql()
UserKey_to_sql(key) == Blob(key.bytes)

\* Mutant: the stored bytes are trusted, the key is not decoded.
UserKey_column_result_trusting(value) ==
    IF value.type # "Blob" THEN Err("UserKey", "InvalidType")
    ELSE IF Len(value.val) # KeyLen THEN Err("UserKey", "InvalidBlobSize")
    ELSE Ok("UserKey", UserKey(value.val))

\* impl FromSql for UserKey.  <[u8; N]>::column_result wants a blob of
\* exactly N bytes.
UserKey_column_result(value) ==
    IF value.type # "Blob" THEN Err("UserKey", "InvalidType")
    ELSE IF Len(value.val) # KeyLen THEN Err("UserKey", "InvalidBlobSize")
    ELSE IF ~from_bytes_ok(value.val) THEN Err("UserKey", "invalid pubkey")
    ELSE Ok("UserKey", UserKey(value.val))

\* impl ToSql for $name: (self.bits() as i64).into()
flag_to_sql(flag) == Integer(as_i64(flag.bits))

\* impl FromSql for $name
flag_column_result(name, value) ==
    IF value.type # "Integer" THEN Err(name, "InvalidType")
    ELSE Ok(name, from_bits_retain(name, as_u64(value.val)))

\* The cell holds whatever the database file holds.
ColumnHolds(v) ==
    /\ col' = v
    /\ stored' = NoValue
    /\ loaded' = NoResult
    /\ UNCHANGED <<envVars, rosterVars>>

StoreFlag(name, bits) ==
    /\ stored' = from_bits_retain(name, bits)
    /\ col' = flag_to_sql(stored')
    /\ loaded' = NoResult
    /\ UNCHANGED <<envVars, rosterVars>>

LoadFlag(name) ==
    /\ loaded' = flag_column_result(name, col)
    /\ UNCHANGED <<col, stored, envVars, rosterVars>>

StoreUserKey(k) ==
    /\ stored' = UserKey(k)
    /\ col' = UserKey_to_sql(stored')
    /\ loaded' = NoResult
    /\ UNCHANGED <<envVars, rosterVars>>

LoadUserKey ==
    /\ loaded' = UserKey_column_result(col)
    /\ UNCHANGED <<col, stored, envVars, rosterVars>>

NextSql ==
    \/ \E v \in ColumnValues : ColumnHolds(v)
    \/ \E name \in FlagTypes, bits \in Masks : StoreFlag(name, bits)
    \/ \E name \in FlagTypes : LoadFlag(name)
    \/ \E k \in UserKeys : StoreUserKey(k)
    \/ LoadUserKey

InitSql ==
    /\ now = ScenarioT
    /\ NoEnvelopeYet
    /\ NoRosterYet
    /\ EmptyColumn

SpecSql == InitSql /\ [][NextSql]_vars

----------------------------------------------------------------------------
(* Properties *)

\* |ts - t| < 90, stated without abs_diff.
InWindow(ts, t) == ts - t < 90 /\ t - ts < 90

Verified == env # NoEnvelope /\ res # "none"
Untouched == env = signed

\* C1: round trip.  An envelope as sign returned it, verified while the clock
\* is less than 90 seconds from the clock reading at signing, passes verify,
\* for every key, payload and nonce.
C1_RoundTrip ==
    (Verified /\ Untouched /\ InWindow(signed.signee.timestamp, now))
        => res = "Ok"

C1_Witness ==
    /\ Verified /\ Untouched
    /\ now = signed.signee.timestamp
    /\ signed.signee.nonce = 1
    /\ signed.signee.payload.kind = "create_room"
    /\ res = "Ok"

\* C2: freshness window.  For an envelope as signed at T, verify succeeds
\* exactly when |T - now| < 90 and fails with TimestampOutOfRange otherwise,
\* also when T is ahead of now; T+89 passes, T+90, T+91 and T-91 fail.
C2_FreshnessWindow ==
    (Verified /\ Untouched) =>
        LET T == signed.signee.timestamp IN
        /\ res = "Ok" <=> InWindow(T, now)
        /\ res # "Ok" => res = "TimestampOutOfRange"
        /\ now = T + 89 => res = "Ok"
        /\ now \in {T + 90, T + 91, T - 91} => res = "TimestampOutOfRange"

C2_Witness ==
    /\ Verified /\ Untouched
    /\ now = signed.signee.timestamp - 91
    /\ res = "TimestampOutOfRange"

\* The envelope differs from the signed one by one flipped bit: of the
\* signature, or of one field of the signee.
SignatureBitFlipped ==
    /\ env.signee = signed.signee
    /\ env.sig.by = signed.sig.by /\ env.sig.over = signed.sig.over
    /\ Cardinality(env.sig.flipped) = 1

SigneeBitFlipped ==
    /\ env.sig = signed.sig
    /\ \/ \E b \in 0..(NonceBits - 1) :
             env.signee = [signed.signee EXCEPT !.nonce = flip_bit(@, b)]
       \/ \E b \in 0..(TsFlipBits - 1) :
             env.signee = [signed.signee EXCEPT !.timestamp = flip_bit(@, b)]
       \/ \E i \in 1..KeyLen :
             env.signee = [signed.signee EXCEPT !.user[i] = 1 - @]
       \/ /\ env.signee.payload.kind # signed.signee.payload.kind
          /\ env.signee = [signed.signee EXCEPT !.payload = env.signee.payload]

OneBitFlipped ==
    /\ env # NoEnvelope
    /\ InWindow(signed.signee.timestamp, now)
    /\ SignatureBitFlipped \/ SigneeBitFlipped

\* C3 as claimed: one flipped bit of a valid envelope makes verify fail with
\* InvalidSignature.
C3_AsClaimed ==
    (OneBitFlipped /\ res # "none") => res = "InvalidSignature"

\* C3 amended: one flipped bit of a valid envelope makes verify fail; the
\* failure is TimestampOutOfRange when the flipped timestamp is 90 seconds or
\* more from the clock, InvalidIdentity when the flipped signer bytes decode
\* to no key, and InvalidSignature in every other case.
C3_TamperDetection ==
    (OneBitFlipped /\ res # "none") =>
        /\ res # "Ok"
        /\ res = "TimestampOutOfRange" <=> ~InWindow(env.signee.timestamp, now)
        /\ res = "InvalidIdentity" <=>
              (InWindow(env.signee.timestamp, now) /\ ~from_bytes_ok(env.signee.user))
        /\ res = "InvalidSignature" <=>
              (InWindow(env.signee.timestamp, now) /\ from_bytes_ok(env.signee.user))

C3_Witness ==
    /\ OneBitFlipped
    /\ SignatureBitFlipped
    /\ res = "InvalidSignature"

\* The scenario: a chat envelope signed at T = 1,700,000,000 and accepted,
\* presented at T + 10.
Scenario ==
    /\ env # NoEnvelope
    /\ signed.signee.payload = ChatPayload(Room1, "hi")
    /\ signed.signee.timestamp = ScenarioT
    /\ now = ScenarioT + 10

Backdated ==
    /\ env.sig = signed.sig
    /\ env.signee = [signed.signee EXCEPT !.timestamp = ScenarioT - 200]

\* C4 as claimed: with the timestamp field set to T - 200 and no new
\* signature, verify at T + 10 fails with InvalidSignature.
C4_AsClaimed ==
    (Scenario /\ Backdated /\ res # "none") => res = "InvalidSignature"

\* C4 amended: verify at T + 10 succeeds; with the timestamp field set to
\* T - 200 and no new signature, verify at T + 10 fails with
\* TimestampOutOfRange: the window is checked before the signature.
C4_Scenario ==
    /\ (Scenario /\ Untouched /\ res # "none") => res = "Ok"
    /\ (Scenario /\ Backdated /\ res # "none") => res = "TimestampOutOfRange"

C4_Witness ==
    /\ Scenario /\ Backdated
    /\ accepts >= 1
    /\ res = "TimestampOutOfRange"

\* C7: every object of the bytes that are signed and verified emits its keys
\* in strictly ascending order of key name, `typ` included.
C7_KeysSorted ==
    env # NoEnvelope =>
        \A fields \in signee_objects(env.signee) : fields_sorted(fields)

\* The signature is the one the embedded key makes over the re-encoded signee.
SignatureMatches ==
    \E key \in SigningKeys :
        /\ verifying_key(key) = env.signee.user
        /\ env.sig = try_sign(key, to_vec(env.signee))

\* C9: verify checks the window first (TimestampOutOfRange whatever the
\* signature and signer are), then decodes the signer (InvalidIdentity), then
\* checks the signature (InvalidSignature), and succeeds only when all pass.
C9_CheckOrder ==
    Verified =>
        /\ ~InWindow(env.signee.timestamp, now) => res = "TimestampOutOfRange"
        /\ (InWindow(env.signee.timestamp, now) /\ ~from_bytes_ok(env.signee.user))
              => res = "InvalidIdentity"
        /\ (InWindow(env.signee.timestamp, now) /\ from_bytes_ok(env.signee.user)
              /\ ~SignatureMatches) => res = "InvalidSignature"
        /\ res = "Ok" =>
              /\ InWindow(env.signee.timestamp, now)
              /\ from_bytes_ok(env.signee.user)
              /\ SignatureMatches

C9_Witness ==
    /\ Verified
    /\ ~InWindow(env.signee.timestamp, now)
    /\ ~from_bytes_ok(env.signee.user)
    /\ env.sig # signed.sig
    /\ res = "TimestampOutOfRange"

\* C10: a verify call changes neither the envelope nor the clock nor anything
\* else, and its verdict on an envelope as signed depends on the window
\* alone: accepted whenever |timestamp - now| < 90, however often it was
\* accepted before, and rejected whenever the clock is 90 or more past it.
C10_Replay ==
    [][res' # "none" =>
          /\ env' = env /\ signed' = signed /\ now' = now
          /\ UNCHANGED <<rosterVars, sqlVars>>
          /\ Untouched =>
                /\ InWindow(env.signee.timestamp, now) => res' = "Ok"
                /\ now >= env.signee.timestamp + 90 => res' # "Ok"]_vars

C10_Witness ==
    /\ Verified /\ Untouched
    /\ accepts = 2
    /\ res = "Ok"

\* Big-endian value of a key: its byte order as a number.
RECURSIVE key_value(_)
key_value(k) ==
    IF k = <<>> THEN 0 ELSE 256 * key_value(SubSeq(k, 1, Len(k) - 1)) + k[Len(k)]

StrictlyIncreasing(ms) ==
    \A i, j \in 1..Len(ms) : i < j => key_value(ms[i].user) < key_value(ms[j].user)

\* C5: try_from succeeds iff the user keys are strictly increasing in byte
\* order, whatever the permissions; on success the list is the input,
\* unchanged; on failure the error is "unsorted or duplicated users".
C5_Roster ==
    roster # NoRoster =>
        /\ roster.ok <=> StrictlyIncreasing(members)
        /\ roster.ok => roster.list = members
        /\ ~roster.ok => roster.err = "unsorted or duplicated users"
        /\ Len(members) <= 1 => roster.ok

C5_Witness ==
    /\ roster # NoRoster
    /\ Len(members) = 3
    /\ members[1].permission # members[2].permission
    /\ roster.ok
    /\ roster.list = members

FlagRoundTrip ==
    /\ stored.name \in FlagTypes
    /\ loaded.kind # "none"
    /\ loaded.as = stored.name

\* C6: a mask stored through the signed integer column and read back as the
\* same flag type is the same mask, bit for bit, for every mask; the read
\* never fails.
C6_BitPattern ==
    FlagRoundTrip =>
        /\ col.type = "Integer" /\ col.val \in I64
        /\ loaded.kind = "ok"
        /\ loaded.value.name = stored.name
        /\ loaded.value.bits = stored.bits

C6_Witness ==
    /\ FlagRoundTrip
    /\ stored.bits = ALL
    /\ col.val = 0 - 1
    /\ loaded.kind = "ok"
    /\ loaded.value.bits = ALL

UserKeyRead == loaded.kind # "none" /\ loaded.as = "UserKey"

DecodableKey ==
    col.type = "Blob" /\ Len(col.val) = KeyLen /\ from_bytes_ok(col.val)

UserKeyWritten == stored.name = "UserKey" => col = Blob(stored.bytes)

\* C8 as claimed: a read succeeds only for a blob of key length that decodes
\* to a key, and then returns those bytes; every other stored value is
\* rejected with the invalid identity error; a write stores the bytes.
C8_AsClaimed ==
    /\ UserKeyWritten
    /\ UserKeyRead =>
          /\ loaded.kind = "ok" <=> DecodableKey
          /\ loaded.kind = "ok" => loaded.value.bytes = col.val
          /\ loaded.kind = "err" => loaded.err = "invalid pubkey"

\* C8 amended: as claimed, except that only a blob of key length that decodes
\* to no key is rejected with the invalid identity error; a blob of another
\* length is rejected with a blob size error and a value that is no blob with
\* a type error.
C8_IdentityColumn ==
    /\ UserKeyWritten
    /\ UserKeyRead =>
          /\ loaded.kind = "ok" <=> DecodableKey
          /\ loaded.kind = "ok" => loaded.value.bytes = col.val
          /\ loaded.kind = "err" =>
                loaded.err =
                    IF col.type # "Blob" THEN "InvalidType"
                    ELSE IF Len(col.val) # KeyLen THEN "InvalidBlobSize"
                    ELSE "invalid pubkey"

C8_Witness ==
    /\ UserKeyRead
    /\ col.type = "Blob" /\ Len(col.val) = KeyLen /\ ~from_bytes_ok(col.val)
    /\ loaded.kind = "err"
    /\ loaded.err = "invalid pubkey"

====
